---------------------------- MODULE Spec2Model ----------------------------
(***************************************************************************)
(* GitResume: the repository relevance engine of GitHubService             *)
(* (calculateRepoScore, rankRepositories, hybridSearch).                   *)
(*                                                                         *)
(* Conventions of the model                                                *)
(*  - A JavaScript string that is searched (name, description, topics,     *)
(*    query) is a sequence of one-character strings, so that toLowerCase   *)
(*    and includes are computed character by character.                    *)
(*  - null / undefined for such a string is the out-of-alphabet value      *)
(*    Null; for the language label it is LangNull.                         *)
(*  - Times are whole seconds (updated_at has second resolution); the      *)
(*    code's milliseconds are the same instants times 1000.                *)
(*  - calculateRepoScore adds repo.size / 1000, a real number.  Scores are *)
(*    kept in thousandths of a point (ScoreScale), so that every score is  *)
(*    an integer and no rounding is introduced.                            *)
(***************************************************************************)
EXTENDS Integers, Sequences, FiniteSets, TLC

VARIABLES
    repos,      \* the record collection handed to rank / hybridSearch
    now,        \* the clock reading Date.now() returns during the call
    query,      \* the query of the last hybridSearch call
    op,         \* the last operation performed: "none", "rank", "hybrid",
                \* "score", "match", or "rejected" for a hybridSearch that threw
    out,        \* the sequence the last rank / hybridSearch call returned
    textMatches,  \* hybridSearch's local textMatches in the last search
    rankedRepos,  \* hybridSearch's local rankedRepos in the last search
    rec,        \* the record handed to calculateRepoScore
    scoreOut,   \* the value the last calculateRepoScore call returned
    matchOut,   \* the value the text filter predicate returned for rec
    prev,       \* what the call before the last one received and returned
    username,   \* the username of the last hybridSearch(username, query)
    cache,      \* GitHubService.cache: cache key -> cached response
    callCount,  \* GitHubService.callCount
    timers,     \* the pending setTimeout callbacks that delete cache entries
    pending,    \* the requests sent to the GitHub API and not yet answered
    served,     \* what the last completed fetchGitHub / hybridSearch returned
    ledger,     \* the calls begun, and the network requests since the last reset
    isAnalyzing,  \* the module-level flag of the POST /api/analyze route
    handlers    \* where each POST /api/analyze request handler stands

\* The service's own state and the bookkeeping of the calls made.
fetchVars == <<pending, served, ledger>>

analyzeVars == <<isAnalyzing, handlers>>

serviceVars == <<matchOut, prev, username, cache, callCount, timers, fetchVars,
                   analyzeVars>>

vars == <<repos, now, query, op, out, textMatches, rankedRepos, rec, scoreOut,
          serviceVars>>

-----------------------------------------------------------------------------
(* Bounds of the model *)

MaxRepos == 10
MaxStars == 16

-----------------------------------------------------------------------------
(* Program constants *)

ScoreScale == 1000
TopN == 8
TextCap == 4
RankCap == 4
ResultCap == 8

DaySeconds == 60 * 60 * 24

Null == <<"<null>">>
LangNull == "<null>"

popularLanguages == {"JavaScript", "TypeScript", "Python", "Java", "Go", "Rust"}

-----------------------------------------------------------------------------
(* JavaScript library functions used by the service *)

MathMin(a, b) == IF a < b THEN a ELSE b

\* String.prototype.toLowerCase on the model's alphabet.
LowerCaseOf ==
    [A |-> "a", B |-> "b", C |-> "c", D |-> "d", E |-> "e", F |-> "f", G
     |-> "g", H |-> "h", I |-> "i", J |-> "j", K |-> "k", L |-> "l", M |->
     "m", N |-> "n", O |-> "o", P |-> "p", Q |-> "q", R |-> "r", S |-> "s",
     T |-> "t", U |-> "u", V |-> "v", W |-> "w", X |-> "x", Y |-> "y", Z
     |-> "z"]

LowerChar(c) == IF c \in DOMAIN LowerCaseOf THEN LowerCaseOf[c] ELSE c

toLowerCase(s) == [i \in 1..Len(s) |-> LowerChar(s[i])]

includesNonEmpty(s, q) ==
    /\ q # <<>>
    /\ \E i \in 0..(Len(s) - Len(q)) : SubSeq(s, i + 1, i + Len(q)) = q

\* String.prototype.includes: q occurs in s as a contiguous substring.
includes(s, q) ==
    \E i \in 0..(Len(s) - Len(q)) : SubSeq(s, i + 1, i + Len(q)) = q

\* Array.prototype.slice(start, end) with 0 <= start <= end.
sliceNoEnd(s, start, end) == SubSeq(s, start + 1, Len(s))

slice(s, start, end) == SubSeq(s, start + 1, MathMin(end, Len(s)))

-----------------------------------------------------------------------------
(* The service after construction: an empty cache, no API call counted. *)

NoCall == [op |-> "none"]

NoUser == <<>>

EmptyCache == {}

NoServed == [outcome |-> "none"]

MaxPosts == 3

\* The POST requests of a behaviour.
Posts == 1..MaxPosts

\* The route module when it is loaded: let isAnalyzing = false; no request
\* has arrived.
AnalyzeInit ==
    /\ isAnalyzing = FALSE
    /\ handlers = [r \in Posts |-> [pc |-> "idle", status |-> 0]]

ServiceInit ==
    /\ matchOut = FALSE
    /\ prev = NoCall
    /\ username = NoUser
    /\ cache = EmptyCache
    /\ callCount = 0
    /\ timers = {}
    /\ pending = {}
    /\ served = NoServed
    /\ ledger = [calls |-> 0, sinceReset |-> 0]
    /\ AnalyzeInit

\* What a caller holds when it makes a call: its arguments and the clock, and
\* what the call before returned, with the service's cache and call counter
\* at that time.  Every call keeps this in `prev`.
Snapshot ==
    [op |-> op, repos |-> repos, rec |-> rec, query |-> query, now |-> now,
     out |-> out, scoreOut |-> scoreOut, username |-> username,
     cache |-> cache, callCount |-> callCount]

-----------------------------------------------------------------------------
(* GitHubService.calculateRepoScore, in thousandths of a point.  The code    *)
(* accumulates into one local, signal after signal; Date.now() is `t`.       *)

daysSinceUpdateAtMost(repo, t, d) == (t - repo.updated_at) <= d * DaySeconds

\* (Date.now() - new Date(repo.updated_at).getTime()) / (1000*60*60*24) < d
daysSinceUpdateBelow(repo, t, d) == (t - repo.updated_at) < d * DaySeconds

recencyOnFirstCallOnly(repo, t) ==
    IF op # "none" THEN 0
    ELSE IF daysSinceUpdateBelow(repo, t, 30) THEN 15
    ELSE IF daysSinceUpdateBelow(repo, t, 90) THEN 10
    ELSE IF daysSinceUpdateBelow(repo, t, 180) THEN 5
    ELSE 0

recency(repo, t) ==
    IF daysSinceUpdateBelow(repo, t, 30) THEN 15
    ELSE IF daysSinceUpdateBelow(repo, t, 90) THEN 10
    ELSE IF daysSinceUpdateBelow(repo, t, 180) THEN 5
    ELSE 0

descriptionQualityWhenPresent(repo) ==
    IF repo.description # Null /\ repo.description # <<>> THEN 10 ELSE 0

descriptionQualityFrom20(repo) ==
    IF repo.description # Null /\ repo.description # <<>>
       /\ Len(repo.description) >= 20
    THEN 10 ELSE 0

\* repo.description && repo.description.length > 20
descriptionQuality(repo) ==
    IF repo.description # Null /\ repo.description # <<>>
       /\ Len(repo.description) > 20
    THEN 10 ELSE 0

calculateRepoScoreUncappedForks(repo, t) ==
    LET s1 == MathMin(repo.stargazers_count * 2, 30) * ScoreScale
        s2 == s1 + repo.forks_count * 3 * ScoreScale
        s3 == s2 + MathMin(repo.size, 15 * ScoreScale)
        s4 == IF repo.language \in popularLanguages
              THEN s3 + 10 * ScoreScale ELSE s3
        s5 == s4 + recency(repo, t) * ScoreScale
        s6 == s5 + descriptionQuality(repo) * ScoreScale
    IN  s6

calculateRepoScoreCapOnStarCount(repo, t) ==
    LET s1 == MathMin(repo.stargazers_count, 30) * 2 * ScoreScale
        s2 == s1 + MathMin(repo.forks_count * 3, 20) * ScoreScale
        s3 == s2 + MathMin(repo.size, 15 * ScoreScale)
        s4 == IF repo.language \in popularLanguages
              THEN s3 + 10 * ScoreScale ELSE s3
        s5 == s4 + recency(repo, t) * ScoreScale
        s6 == s5 + descriptionQuality(repo) * ScoreScale
    IN  s6

calculateRepoScoreDefaultLanguage(repo, t) ==
    LET s1 == MathMin(repo.stargazers_count * 2, 30) * ScoreScale
        s2 == s1 + MathMin(repo.forks_count * 3, 20) * ScoreScale
        s3 == s2 + MathMin(repo.size, 15 * ScoreScale)
        s4 == IF repo.language \in popularLanguages \cup {LangNull, ""}
              THEN s3 + 10 * ScoreScale ELSE s3
        s5 == s4 + recency(repo, t) * ScoreScale
        s6 == s5 + descriptionQuality(repo) * ScoreScale
    IN  s6

calculateRepoScore(repo, t) ==
    LET s0 == 0
        \* score += Math.min(repo.stargazers_count * 2, 30)
        s1 == s0 + MathMin(repo.stargazers_count * 2, 30) * ScoreScale
        \* score += Math.min(repo.forks_count * 3, 20)
        s2 == s1 + MathMin(repo.forks_count * 3, 20) * ScoreScale
        \* score += Math.min(repo.size / 1000, 15)
        s3 == s2 + MathMin(repo.size, 15 * ScoreScale)
        \* if (popularLanguages.includes(repo.language)) score += 10
        s4 == IF repo.language \in popularLanguages
              THEN s3 + 10 * ScoreScale ELSE s3
        \* if (daysSinceUpdate < 30) ... else if (< 90) ... else if (< 180) ...
        s5 == s4 + recency(repo, t) * ScoreScale
        \* if (repo.description && repo.description.length > 20) score += 10
        s6 == s5 + descriptionQuality(repo) * ScoreScale
    IN  s6

-----------------------------------------------------------------------------
(* Inputs of the scoring specification *)

Epoch == 20000 * DaySeconds

Text(n) == [i \in 1..n |-> IF i % 2 = 1 THEN "a" ELSE "b"]

StarCounts == (0..MaxStars) \cup {50}
ForkCounts == {0, 1, 6, 7, 10}
Sizes == {0, 999, 1000, 14999, 15000, 20000}
Languages == popularLanguages \cup {"Solidity", "rust", "", LangNull}
Descriptions == {Null, <<>>, Text(20), Text(21), Text(50)}
ElapsedSeconds ==
    {-DaySeconds, 0, 5 * DaySeconds,
     30 * DaySeconds - 1, 30 * DaySeconds,
     90 * DaySeconds - 1, 90 * DaySeconds,
     180 * DaySeconds - 1, 180 * DaySeconds,
     730 * DaySeconds}

ScoreRecords ==
    [id : {1}, name : {<<"d", "b">>}, description : Descriptions,
     language : Languages, stargazers_count : StarCounts,
     forks_count : ForkCounts, size : Sizes, updated_at : {Epoch},
     topics : {<<>>}]

NoRecord ==
    [id |-> 0, name |-> <<"d", "b">>, description |-> Null,
     language |-> LangNull, stargazers_count |-> 0, forks_count |-> 0,
     size |-> 0, updated_at |-> Epoch, topics |-> <<>>]

NoScore == 0 - 1

InitScore ==
    /\ rec \in ScoreRecords
    /\ now \in {Epoch + e : e \in ElapsedSeconds}
    /\ repos = <<>>
    /\ query = <<>>
    /\ op = "none"
    /\ out = <<>>
    /\ textMatches = <<>>
    /\ rankedRepos = <<>>
    /\ scoreOut = NoScore
    /\ ServiceInit

CalculateRepoScore ==
    /\ op = "none"
    /\ op' = "score"
    /\ scoreOut' = calculateRepoScore(rec, now)
    /\ prev' = Snapshot
    /\ UNCHANGED <<repos, now, query, out, textMatches, rankedRepos, rec,
                   matchOut, username, cache, callCount,
                   timers, fetchVars,
                   analyzeVars>>

NextScore == CalculateRepoScore

SpecScore == InitScore /\ [][NextScore]_vars

-----------------------------------------------------------------------------
(* GitHubService.rankRepositories *)

\* .map(repo => ({ ...repo, score: this.calculateRepoScore(repo) }))
withScore(repo, t) ==
    [id |-> repo.id, name |-> repo.name, description |-> repo.description,
     language |-> repo.language, stargazers_count |-> repo.stargazers_count,
     forks_count |-> repo.forks_count, size |-> repo.size,
     updated_at |-> repo.updated_at, topics |-> repo.topics,
     score |-> calculateRepoScore(repo, t)]

compareScoreAscending(a, b) == a.score - b.score

\* The comparator (a, b) => b.score - a.score
compareScore(a, b) == b.score - a.score

insertSortedUnstable(sorted, x) ==
    LET later == {j \in 1..Len(sorted) : compareScore(sorted[j], x) >= 0}
        k == IF later = {} THEN Len(sorted) + 1
             ELSE CHOOSE j \in later : \A i \in later : j <= i
    IN  SubSeq(sorted, 1, k - 1) \o <<x>> \o SubSeq(sorted, k, Len(sorted))

\* Array.prototype.sort is stable: an element goes in front of the first
\* element the comparator orders after it, and behind every other one.
insertSorted(sorted, x) ==
    LET later == {j \in 1..Len(sorted) : compareScore(sorted[j], x) > 0}
        k == IF later = {} THEN Len(sorted) + 1
             ELSE CHOOSE j \in later : \A i \in later : j <= i
    IN  SubSeq(sorted, 1, k - 1) \o <<x>> \o SubSeq(sorted, k, Len(sorted))

RECURSIVE sortPrefix(_, _)
sortPrefix(s, n) ==
    IF n = 0 THEN <<>> ELSE insertSorted(sortPrefix(s, n - 1), s[n])

sort(s) == sortPrefix(s, Len(s))

argumentAfterSortInPlace(rs, sorted) == sorted

\* .map builds a new array of new objects ({ ...repo, score }), and .sort
\* reorders that array in place: the array passed in keeps its records and
\* their order.
argumentAfterSort(rs, sorted) == rs

rankRepositoriesNoSlice(rs, t) ==
    sort([i \in 1..Len(rs) |-> withScore(rs[i], t)])

rankRepositoriesRelativeToLowest(rs, t) ==
    LET scored == [i \in 1..Len(rs) |-> withScore(rs[i], t)]
        lowest == IF rs = <<>> THEN 0
                  ELSE CHOOSE m \in {scored[i].score : i \in 1..Len(rs)} :
                          \A i \in 1..Len(rs) : m <= scored[i].score
        relative == [i \in 1..Len(rs) |->
                        [scored[i] EXCEPT !.score = @ - lowest]]
    IN  slice(sort(relative), 0, TopN)

rankRepositoriesPlaceholderOnEmpty(rs, t) ==
    IF rs = <<>> THEN <<withScore(NoRecord, t)>>
    ELSE slice(sort([i \in 1..Len(rs) |-> withScore(rs[i], t)]), 0, TopN)

rankRepositories(rs, t) ==
    slice(sort([i \in 1..Len(rs) |-> withScore(rs[i], t)]), 0, TopN)

-----------------------------------------------------------------------------
(* GitHubService.hybridSearch, on the records getUserRepositories returned *)

isTextMatchCaseSensitiveQuery(repo, q) ==
    \/ includes(toLowerCase(repo.name), q)
    \/ (repo.description # Null /\ includes(toLowerCase(repo.description), q))
    \/ \E k \in 1..Len(repo.topics) : includes(toLowerCase(repo.topics[k]), q)

\* The filter predicate of the text-based search.
isTextMatch(repo, q) ==
    \/ includes(toLowerCase(repo.name), toLowerCase(q))
    \/ (repo.description # Null
        /\ includes(toLowerCase(repo.description), toLowerCase(q)))
    \/ \E k \in 1..Len(repo.topics) :
          includes(toLowerCase(repo.topics[k]), toLowerCase(q))

findByIdentity(matches, repo) ==
    \E m \in 1..Len(matches) : matches[m] = repo

\* textMatches.find(match => match.id === repo.id)
find(matches, repo) ==
    \E m \in 1..Len(matches) : matches[m].id = repo.id

\* const textMatches = repos.filter(repo => ...); Array.prototype.filter is
\* SelectSeq.
textSearch(rs, q) == SelectSeq(rs, LAMBDA r : isTextMatch(r, q))

mergeRankingNonMatchesOnly(tm, rr) ==
    LET rest == SelectSeq(repos, LAMBDA r : ~ find(tm, r))
        hybridResults ==
            slice(tm, 0, TextCap)
            \o slice(rankRepositories(rest, now), 0, RankCap)
    IN  slice(hybridResults, 0, ResultCap)

mergeRankedFirst(tm, rr) ==
    LET notMatched(r) == ~ find(tm, r)
        hybridResults ==
            slice(SelectSeq(rr, notMatched), 0, RankCap) \o slice(tm, 0, TextCap)
    IN  slice(hybridResults, 0, ResultCap)

mergeFillToCap(tm, rr) ==
    LET notMatched(r) == ~ find(tm, r)
        hybridResults == slice(tm, 0, TextCap) \o SelectSeq(rr, notMatched)
    IN  slice(hybridResults, 0, ResultCap)

\* The merge of hybridSearch: hybridResults, then hybridResults.slice(0, 8);
\* tm and rr are the locals textMatches and rankedRepos.
merge(tm, rr) ==
    LET notMatched(r) == ~ find(tm, r)
        hybridResults ==
            slice(tm, 0, TextCap)
            \o slice(SelectSeq(rr, notMatched), 0, RankCap)
    IN  slice(hybridResults, 0, ResultCap)

-----------------------------------------------------------------------------
(* Inputs of the ranking and search specification *)

\* Two kinds of record.  Without the recency signal "ai" scores 2.5 and "db"
\* 7.5; "db" was last updated 90 days before "ai".
Templates ==
    [ai |->
        [name |-> <<"A", "i">>, description |-> Null,
         language |-> "Solidity", stargazers_count |-> 1, forks_count |-> 0,
         size |-> 500, updated_at |-> Epoch,
         topics |-> << <<"W", "e", "b">> >>],
     db |->
        [name |-> <<"d", "b">>, description |-> <<"S", "i", "t", "e">>,
         language |-> LangNull, stargazers_count |-> 0, forks_count |-> 0,
         size |-> 7500, updated_at |-> Epoch - 90 * DaySeconds,
         topics |-> <<>>]]

\* The record of template `tp` at position i of the collection; identifiers
\* are unique within a collection.
MakeRepo(tp, i) ==
    [id |-> 100 + i, name |-> Templates[tp].name,
     description |-> Templates[tp].description,
     language |-> Templates[tp].language,
     stargazers_count |-> Templates[tp].stargazers_count,
     forks_count |-> Templates[tp].forks_count, size |-> Templates[tp].size,
     updated_at |-> Templates[tp].updated_at, topics |-> Templates[tp].topics]

\* The empty query, the name of "ai", a piece of the topic of "ai", a piece
\* of the description of "db", and a query nothing matches; the case of the
\* letters differs from the records'.
Queries == {<<>>, <<"a", "I">>, <<"w", "E">>, <<"S", "i", "T">>, <<"z">>}

\* Three readings of the clock: after 10 days "ai" scores higher than "db"
\* (17.5 against 12.5), after 100 days both score 7.5, after 200 days "db"
\* scores higher (7.5 against 2.5).
Clock == {Epoch + 10 * DaySeconds, Epoch + 100 * DaySeconds,
          Epoch + 200 * DaySeconds}

Init ==
    /\ \E n \in 0..MaxRepos : \E f \in [1..n -> DOMAIN Templates] :
          repos = [i \in 1..n |-> MakeRepo(f[i], i)]
    /\ now \in Clock
    /\ query = <<>>
    /\ op = "none"
    /\ out = <<>>
    /\ textMatches = <<>>
    /\ rankedRepos = <<>>
    /\ rec = NoRecord
    /\ scoreOut = NoScore
    /\ ServiceInit

\* Each behaviour of Spec applies one operation to the inputs Init drew.
RankRepositories ==
    /\ op = "none"
    /\ op' = "rank"
    /\ out' = rankRepositories(repos, now)
    /\ repos' = argumentAfterSort(repos, out')
    /\ prev' = Snapshot
    /\ UNCHANGED <<now, query, textMatches, rankedRepos, rec, scoreOut,
                   matchOut, username, cache, callCount,
                   timers, fetchVars,
                   analyzeVars>>

HybridSearch(q) ==
    /\ op = "none"
    /\ op' = "hybrid"
    /\ query' = q
    /\ textMatches' = textSearch(repos, q)
    /\ rankedRepos' = rankRepositories(repos, now)
    /\ out' = merge(textMatches', rankedRepos')
    /\ repos' = argumentAfterSort(repos, rankedRepos')
    /\ prev' = Snapshot
    /\ UNCHANGED <<now, rec, scoreOut, matchOut, username, cache, callCount,
                   timers, fetchVars,
                   analyzeVars>>

Next ==
    \/ RankRepositories
    \/ \E q \in Queries : HybridSearch(q)

Spec == Init /\ [][Next]_vars

-----------------------------------------------------------------------------
(* Vocabulary of the properties *)

Least(a, b) == IF a <= b THEN a ELSE b

Ids(s) == {s[i].id : i \in 1..Len(s)}

\* Position in the input of the record with identifier `ident`.
InputIndex(ident) == CHOOSE j \in 1..Len(repos) : repos[j].id = ident

InputScore(j) == calculateRepoScore(repos[j], now)

\* The number of text matches the last search took into its result.
TextTaken == Least(4, Len(textMatches))

-----------------------------------------------------------------------------
(* Properties of calculateRepoScore, checked under SpecScore *)

\* C1: for every valid record (non-negative stars, forks and size) and every
\* reading of the clock, the relevance score lies between 0 and 100.
C1_ScoreBounded ==
    op = "score" => 0 <= scoreOut /\ scoreOut <= 100 * 1000

\* C1 witness: a record with MaxStars stars has been scored and reaches the
\* upper end of the range.
C1_Witness ==
    /\ op = "score"
    /\ rec.stargazers_count = MaxStars
    /\ rec.forks_count = 10
    /\ scoreOut = 100 * 1000

\* The six capped signals as the specification tabulates them, in
\* thousandths of a point.
StarsSignal == Least(rec.stargazers_count * 2 * 1000, 30 * 1000)
ForksSignal == Least(rec.forks_count * 3 * 1000, 20 * 1000)
SizeSignal == Least(rec.size, 15 * 1000)
LanguageSignal ==
    IF rec.language \in {"JavaScript", "TypeScript", "Python", "Java", "Go", "Rust"}
    THEN 10 * 1000 ELSE 0
RecencySignal ==
    LET elapsed == now - rec.updated_at
    IN  IF elapsed < 30 * 86400 THEN 15 * 1000
        ELSE IF elapsed < 90 * 86400 THEN 10 * 1000
        ELSE IF elapsed < 180 * 86400 THEN 5 * 1000
        ELSE 0
DescriptionSignal ==
    IF rec.description \notin {Null, <<>>} /\ Len(rec.description) >= 21
    THEN 10 * 1000 ELSE 0

FullMarksRecord ==
    [id |-> 1, name |-> <<"d", "b">>, description |-> Text(50),
     language |-> "Rust", stargazers_count |-> 50, forks_count |-> 10,
     size |-> 20000, updated_at |-> Epoch, topics |-> <<>>]

EmptyRecord ==
    [id |-> 1, name |-> <<"d", "b">>, description |-> <<>>,
     language |-> "", stargazers_count |-> 0, forks_count |-> 0,
     size |-> 0, updated_at |-> Epoch, topics |-> <<>>]

\* C2: the score is the plain sum of the six capped signals; the record with
\* 50 stars, 10 forks, 20000 KB, Rust, updated 5 days ago and a 50-character
\* description scores exactly 100, and the all-zero, all-empty record updated
\* two years ago scores exactly 0.
C2_ScoreIsSumOfSignals ==
    op = "score" =>
        /\ scoreOut = StarsSignal + ForksSignal + SizeSignal + LanguageSignal
                      + RecencySignal + DescriptionSignal
        /\ (rec = FullMarksRecord /\ now = Epoch + 5 * 86400)
              => scoreOut = 100 * 1000
        /\ (rec = EmptyRecord /\ now = Epoch + 730 * 86400) => scoreOut = 0

\* C2 witness: the full-marks record of the scenario has been scored, five
\* days after its last update.
C2_Witness ==
    /\ op = "score"
    /\ rec = FullMarksRecord
    /\ now = Epoch + 5 * 86400
    /\ scoreOut = 100 * 1000

-----------------------------------------------------------------------------
(* Properties of rankRepositories, checked under Spec *)

\* C3: rank returns exactly min(number of input records, 8) entries: all of
\* them when there are fewer than 8, never more than 8.
C3_RankSize ==
    op = "rank" => Len(out) = Least(Len(repos), 8)

\* C3 witness: a collection of more than 8 records has been ranked and cut
\* to 8.
C3_Witness ==
    op = "rank" /\ Len(repos) > 8 /\ Len(out) = 8

\* C4: the output of rank is ordered by non-increasing score and is the top
\* of the input: its entries are input records carrying their own score,
\* and every record left out scores no higher than every record included.
C4_RankOrderedTop ==
    op = "rank" =>
        /\ \A i \in 1..(Len(out) - 1) : out[i].score >= out[i + 1].score
        /\ \A i \in 1..Len(out) :
              /\ out[i].id \in Ids(repos)
              /\ out[i].score = InputScore(InputIndex(out[i].id))
              /\ out[i].name = repos[InputIndex(out[i].id)].name
        /\ \A j \in 1..Len(repos) :
              repos[j].id \notin Ids(out)
                  => \A i \in 1..Len(out) : InputScore(j) <= out[i].score

\* C4 witness: an input that was not in score order has been ranked into an
\* output holding different scores, and a record scoring less than a kept
\* record has been left out.
C4_Witness ==
    /\ op = "rank"
    /\ \E i, j \in 1..Len(repos) : i < j /\ InputScore(i) < InputScore(j)
    /\ \E j \in 1..Len(repos) :
          /\ repos[j].id \notin Ids(out)
          /\ \E i \in 1..Len(out) : InputScore(j) < out[i].score
    /\ \E i, j \in 1..Len(out) : out[i].score > out[j].score

\* C5: two input records with equal scores keep their relative input order
\* in the output of rank, and when only some of them survive the cut, the
\* earlier ones in the input are the ones kept.
C5_RankStable ==
    op = "rank" =>
        \A i, j \in 1..Len(repos) :
            (i < j /\ InputScore(i) = InputScore(j)
                   /\ repos[j].id \in Ids(out))
            => /\ repos[i].id \in Ids(out)
               /\ \E a, b \in 1..Len(out) :
                     a < b /\ out[a].id = repos[i].id /\ out[b].id = repos[j].id

\* C5 witness: two differently named records with equal scores straddle the
\* cut; the earlier one is in the output and the later one is not.
C5_Witness ==
    /\ op = "rank"
    /\ \E i, j \in 1..Len(repos) :
          /\ i < j
          /\ InputScore(i) = InputScore(j)
          /\ repos[i].name # repos[j].name
          /\ repos[i].id \in Ids(out)
          /\ repos[j].id \notin Ids(out)

-----------------------------------------------------------------------------
(* Properties of hybridSearch, checked under Spec *)

\* C6: for every record collection and every query, hybridSearch returns at
\* most 8 records.
C6_HybridCap ==
    op = "hybrid" => Len(out) <= 8

\* C6 witness: a search over more than 8 records has returned a full result
\* of 8.
C6_Witness ==
    op = "hybrid" /\ Len(repos) > 8 /\ Len(out) = 8

\* C7: no identifier appears twice in the sequence hybridSearch returns.
C7_HybridNoDuplicate ==
    op = "hybrid" =>
        \A i, j \in 1..Len(out) : i # j => out[i].id # out[j].id

\* C7 witness: a record that is both a text match and a record of the top-8
\* ranking has been returned, in a result that also holds ranked fill.
C7_Witness ==
    /\ op = "hybrid"
    /\ Len(out) > TextTaken
    /\ \E i \in 1..TextTaken :
          /\ out[i].id \in Ids(textMatches)
          /\ out[i].id \in Ids(rankedRepos)

\* C8: the result is a prefix of text matches followed by ranked fill: its
\* first entries are exactly the first min(4, number of matches) matching
\* records in input order, and every later entry is a record of the top-8
\* ranking, the later entries appearing in the order of the ranking.
C8_HybridPrefixThenRanked ==
    op = "hybrid" =>
        LET \* RankPos[i]: the places of out[i] in the ranking.
            RankPos == [i \in 1..Len(out) |->
                          {k \in 1..Len(rankedRepos) : rankedRepos[k] = out[i]}]
        IN  /\ Len(out) >= TextTaken
            /\ \A i \in 1..TextTaken :
                  /\ out[i] = textMatches[i]
                  /\ out[i] \in {repos[j] : j \in 1..Len(repos)}
            /\ \A i \in 1..(TextTaken - 1) :
                  InputIndex(out[i].id) < InputIndex(out[i + 1].id)
            /\ \A i \in (TextTaken + 1)..Len(out) : RankPos[i] # {}
            /\ \A i \in (TextTaken + 1)..(Len(out) - 1) :
                  \E k \in RankPos[i], l \in RankPos[i + 1] : k < l

\* C8 witness: a search with a non-empty query has returned text matches
\* followed by at least two records of ranked fill, while a matching record
\* stands after a non-matching one in the input.
C8_Witness ==
    /\ op = "hybrid"
    /\ query # <<>>
    /\ TextTaken >= 2
    /\ Len(out) >= TextTaken + 2
    /\ \E i, j \in 1..Len(repos) :
          /\ i < j
          /\ repos[i].id \notin Ids(textMatches)
          /\ repos[j].id \in Ids(textMatches)

\* The records of the top-8 ranking that the merge may still append,
\* counted two ways: those not among the text matches taken into the
\* result, and those that are no text match at all.
RankedNotTaken ==
    Cardinality({k \in 1..Len(rankedRepos) :
        rankedRepos[k].id \notin Ids(SubSeq(textMatches, 1, TextTaken))})

RankedNotMatching ==
    Cardinality({k \in 1..Len(rankedRepos) :
        rankedRepos[k].id \notin Ids(textMatches)})

C10_SkippedOnlyWhenPresent ==
    op = "hybrid" =>
        /\ (Len(out) < 8 /\ Len(out) - TextTaken < 4)
              => \A k \in 1..Len(rankedRepos) : rankedRepos[k].id \in Ids(out)
        /\ (query = <<>> /\ Len(repos) = 5)
              => Len(out) = 5 /\ out[5].id = repos[5].id

-----------------------------------------------------------------------------
(* The text filter of hybridSearch on one record: inputs and operation *)

MatchNames == {<<"A", "i">>, <<"d", "b">>, <<"W", "e", "b", "A", "I">>}
MatchDescriptions ==
    {Null, <<>>, <<"S", "i", "t", "e">>, <<"a", "i", "d">>}
MatchTopics ==
    {<<>>, << <<"A", "I">> >>, << <<"d", "b">>, <<"w", "E", "B">> >>}
MatchQueries ==
    {<<>>, <<"a", "i">>, <<"A", "I">>, <<"a", "I">>, <<"e", "b">>,
     <<"S", "I">>, <<"i", "d">>, <<"b", "w">>, <<"z">>}

MatchRecords ==
    [id : {1}, name : MatchNames, description : MatchDescriptions,
     language : {LangNull}, stargazers_count : {0}, forks_count : {0},
     size : {0}, updated_at : {Epoch}, topics : MatchTopics]

InitMatch ==
    /\ rec \in MatchRecords
    /\ query \in MatchQueries
    /\ now = Epoch
    /\ repos = <<>>
    /\ op = "none"
    /\ out = <<>>
    /\ textMatches = <<>>
    /\ rankedRepos = <<>>
    /\ scoreOut = NoScore
    /\ ServiceInit

\* The predicate repos.filter applies to one record.
TextMatch ==
    /\ op = "none"
    /\ op' = "match"
    /\ matchOut' = isTextMatch(rec, query)
    /\ prev' = Snapshot
    /\ UNCHANGED <<repos, now, query, out, textMatches, rankedRepos, rec,
                   scoreOut, username, cache, callCount,
                   timers, fetchVars,
                   analyzeVars>>

NextMatch == TextMatch

SpecMatch == InitMatch /\ [][NextMatch]_vars

-----------------------------------------------------------------------------
(* Properties of the text filter, checked under SpecMatch *)

\* Lower case of a text, by the table of the letters that have two cases.
LowerTable ==
    [A |-> "a", B |-> "b", E |-> "e", I |-> "i", S |-> "s", T |-> "t",
     W |-> "w"]

Lowered(s) ==
    [i \in 1..Len(s) |->
        IF s[i] \in DOMAIN LowerTable THEN LowerTable[s[i]] ELSE s[i]]

\* q is a substring of s: s is some text, then q, then some text.
Occurs(q, s) ==
    \E a \in 0..Len(s) : \E b \in a..Len(s) : SubSeq(s, a + 1, b) = q

\* C11: a record is a text match exactly when the lowercased query is a
\* substring of the lowercased name, or of the lowercased description when a
\* description is present, or of at least one lowercased topic; a record
\* without description is matched on name and topics only.
C11_TextMatchRule ==
    op = "match" =>
        matchOut =
            (\/ Occurs(Lowered(query), Lowered(rec.name))
             \/ (rec.description # Null
                 /\ Occurs(Lowered(query), Lowered(rec.description)))
             \/ \E k \in 1..Len(rec.topics) :
                   Occurs(Lowered(query), Lowered(rec.topics[k])))

\* C11 witness: a record without description has matched through a topic
\* only, against a query whose letters differ in case from the topic's.
C11_Witness ==
    /\ op = "match"
    /\ matchOut
    /\ rec.description = Null
    /\ ~ Occurs(Lowered(query), Lowered(rec.name))
    /\ query # <<>>
    /\ \A k \in 1..Len(rec.topics) : ~ Occurs(query, rec.topics[k])

-----------------------------------------------------------------------------
(* Empty query and empty collection, checked under Spec *)

\* C12: with an empty query every record is a text match, and the text-match
\* part of the hybridSearch result is exactly the first min(4, n) records of
\* the input, in input order, whatever their scores.
C12_EmptyQueryTakesFirstFour ==
    (op = "hybrid" /\ query = <<>>) =>
        /\ textMatches = repos
        /\ TextTaken = Least(4, Len(repos))
        /\ Len(out) >= TextTaken
        /\ \A i \in 1..TextTaken : out[i] = repos[i]

\* C12 witness: an empty query over more than four records whose first four
\* are not the four best: a later record scores more than the first.
C12_Witness ==
    /\ op = "hybrid"
    /\ query = <<>>
    /\ Len(repos) > 4
    /\ \E j \in 5..Len(repos) : InputScore(j) > InputScore(1)
    /\ \A i \in 1..4 : out[i] = repos[i]

\* C13: an empty record collection is no error: rank returns the empty
\* sequence and hybridSearch returns the empty sequence for every query.
C13_EmptyInputEmptyResult ==
    (repos = <<>> /\ op \in {"rank", "hybrid"}) => out = <<>>

\* C13 witness: hybridSearch has returned the empty sequence for a query of
\* several letters over the empty collection.
C13_Witness ==
    /\ repos = <<>>
    /\ op = "hybrid"
    /\ Len(query) > 1
    /\ out = <<>>

\* C13 witness of the other operation: rank has returned the empty sequence.
C13_RankWitness ==
    /\ repos = <<>>
    /\ op = "rank"
    /\ out = <<>>

-----------------------------------------------------------------------------
(* The arguments after a call, checked under Spec *)

\* C16: rank and hybridSearch leave their input unchanged: after either call
\* the input collection holds the same records in the same order, and every
\* input record has the same fields and values as before the call (no
\* reordering in place, no score field added).
C16_InputUnchanged ==
    op \in {"rank", "hybrid"} =>
        /\ prev.op = "none"
        /\ Len(repos) = Len(prev.repos)
        /\ \A i \in 1..Len(repos) :
              /\ repos[i] = prev.repos[i]
              /\ "score" \notin DOMAIN repos[i]

\* C16 witness: rank has returned scored records in an order that differs
\* from the input order, and the input is as it was before the call.
C16_Witness ==
    /\ op = "rank"
    /\ Len(repos) >= 2
    /\ Len(out) = Len(repos)
    /\ \E i \in 1..Len(out) : out[i].id # repos[i].id
    /\ \A i \in 1..Len(out) : "score" \in DOMAIN out[i]
    /\ repos = prev.repos

\* C16 witness of the other operation: hybridSearch has ranked the records
\* in an order that differs from the input order, and the input is as it was.
C16_HybridWitness ==
    /\ op = "hybrid"
    /\ Len(repos) >= 2
    /\ Len(rankedRepos) = Len(repos)
    /\ \E i \in 1..Len(repos) : rankedRepos[i].id # repos[i].id
    /\ repos = prev.repos

-----------------------------------------------------------------------------
(* calculateRepoScore on records whose numeric fields may be negative *)

AnyStarCounts == {-3, -1, 0, 1, 20}
AnyForkCounts == {-2, 0, 7}
AnySizes == {-500, 0, 1000}

AnyRecords ==
    [id : {1}, name : {<<"d", "b">>}, description : {Null, Text(21)},
     language : {LangNull, "Go"}, stargazers_count : AnyStarCounts,
     forks_count : AnyForkCounts, size : AnySizes, updated_at : {Epoch},
     topics : {<<>>}]

InitScoreAny ==
    /\ rec \in AnyRecords
    /\ now \in {Epoch, Epoch + 730 * DaySeconds}
    /\ repos = <<>>
    /\ query = <<>>
    /\ op = "none"
    /\ out = <<>>
    /\ textMatches = <<>>
    /\ rankedRepos = <<>>
    /\ scoreOut = NoScore
    /\ ServiceInit

NextScoreAny == CalculateRepoScore

SpecScoreAny == InitScoreAny /\ [][NextScoreAny]_vars

\* A numeric field of the scored record is negative.
InvalidNumericField ==
    \/ rec.stargazers_count < 0
    \/ rec.forks_count < 0
    \/ rec.size < 0

\* C17: when a required numeric field of a record is present but is not a
\* valid non-negative number, for example a negative star count, scoring the
\* record signals InvalidInput instead of producing a score: the call leaves
\* no score behind.
C17_InvalidInputSignalled ==
    (op = "score" /\ InvalidNumericField) => scoreOut = NoScore

\* The score the code returns for the record with -1 stars and nothing else,
\* updated two years ago: -2 points.
C17_NegativeScoreReturned ==
    /\ op = "score"
    /\ rec.stargazers_count = -1
    /\ rec.forks_count = 0
    /\ rec.size = 0
    /\ scoreOut = -2 * ScoreScale

-----------------------------------------------------------------------------
(* Missing and zero fields, checked under SpecScore *)

\* C18: scoring never fails on a missing or zero field: an absent or empty
\* language contributes 0, an absent or empty description contributes 0, and
\* zero stars, zero forks and zero size each contribute 0; in each case a
\* score is returned, made of the other signals alone.
C18_MissingFieldContributesZero ==
    op = "score" =>
        /\ scoreOut # NoScore
        /\ rec.language \in {LangNull, ""} =>
              scoreOut = StarsSignal + ForksSignal + SizeSignal
                         + RecencySignal + DescriptionSignal
        /\ rec.description \in {Null, <<>>} =>
              scoreOut = StarsSignal + ForksSignal + SizeSignal
                         + LanguageSignal + RecencySignal
        /\ rec.stargazers_count = 0 =>
              scoreOut = ForksSignal + SizeSignal + LanguageSignal
                         + RecencySignal + DescriptionSignal
        /\ rec.forks_count = 0 =>
              scoreOut = StarsSignal + SizeSignal + LanguageSignal
                         + RecencySignal + DescriptionSignal
        /\ rec.size = 0 =>
              scoreOut = StarsSignal + ForksSignal + LanguageSignal
                         + RecencySignal + DescriptionSignal

\* C18 witness: a record without language and without description, with zero
\* stars, forks and size, updated a few days ago, has been scored: only the
\* recency signal is left.
C18_Witness ==
    /\ op = "score"
    /\ rec.language = LangNull
    /\ rec.description = Null
    /\ rec.stargazers_count = 0
    /\ rec.forks_count = 0
    /\ rec.size = 0
    /\ now = Epoch + 5 * 86400
    /\ scoreOut = 15 * 1000

-----------------------------------------------------------------------------
(* A caller that repeats a call.  The second call is made at a later (or   *)
(* the same) reading of the clock, which calculateRepoScore reads itself   *)
(* through Date.now(); the record scored may have gained stars meanwhile.  *)

MaxRepeatRepos == 4

RepeatRecords ==
    [id : {1}, name : {<<"d", "b">>}, description : {Null, Text(21)},
     language : {LangNull, "Go"}, stargazers_count : {0, 7, 14, 15, 16, 40},
     forks_count : {0, 7}, size : {0, 1000}, updated_at : {Epoch},
     topics : {<<>>}]

StarGains == {0, 1, 2, 30}

InitRepeat ==
    /\ \/ /\ rec \in RepeatRecords
          /\ repos = <<>>
       \/ /\ rec = NoRecord
          /\ \E n \in 1..MaxRepeatRepos : \E f \in [1..n -> DOMAIN Templates] :
                repos = [i \in 1..n |-> MakeRepo(f[i], i)]
    /\ now \in Clock
    /\ query = <<>>
    /\ op = "none"
    /\ out = <<>>
    /\ textMatches = <<>>
    /\ rankedRepos = <<>>
    /\ scoreOut = NoScore
    /\ ServiceInit

\* calculateRepoScore called a second time, at clock reading t, on the
\* record with d more stars.
ScoreAgain(d, t) ==
    /\ op = "score"
    /\ prev.op = "none"
    /\ t >= now
    /\ now' = t
    /\ rec' = [rec EXCEPT !.stargazers_count = @ + d]
    /\ scoreOut' = calculateRepoScore(rec', now')
    /\ prev' = Snapshot
    /\ UNCHANGED <<repos, query, op, out, textMatches, rankedRepos, matchOut,
                   username, cache, callCount,
                   timers, fetchVars,
                   analyzeVars>>

\* rankRepositories called a second time on the same collection, at clock
\* reading t.
RankAgain(t) ==
    /\ op = "rank"
    /\ prev.op = "none"
    /\ t >= now
    /\ now' = t
    /\ out' = rankRepositories(repos, now')
    /\ repos' = argumentAfterSort(repos, out')
    /\ prev' = Snapshot
    /\ UNCHANGED <<query, op, textMatches, rankedRepos, rec, scoreOut,
                   matchOut, username, cache, callCount,
                   timers, fetchVars,
                   analyzeVars>>

\* hybridSearch called a second time on the same collection with query q, at
\* clock reading t.
HybridAgain(q, t) ==
    /\ op = "hybrid"
    /\ prev.op = "none"
    /\ t >= now
    /\ now' = t
    /\ query' = q
    /\ textMatches' = textSearch(repos, q)
    /\ rankedRepos' = rankRepositories(repos, now')
    /\ out' = merge(textMatches', rankedRepos')
    /\ repos' = argumentAfterSort(repos, rankedRepos')
    /\ prev' = Snapshot
    /\ UNCHANGED <<op, rec, scoreOut, matchOut, username, cache, callCount,
                   timers, fetchVars,
                   analyzeVars>>

NextRepeat ==
    \/ CalculateRepoScore
    \/ RankRepositories
    \/ \E q \in Queries : HybridSearch(q)
    \/ \E d \in StarGains : \E t \in Clock : ScoreAgain(d, t)
    \/ \E t \in Clock : RankAgain(t)
    \/ \E q \in Queries : \E t \in Clock : HybridAgain(q, t)

SpecRepeat == InitRepeat /\ [][NextRepeat]_vars

-----------------------------------------------------------------------------
(* Properties of repeated calls, checked under SpecRepeat *)

\* The call just made is the second of two calls of the same operation with
\* the same arguments: the same record, the same collection, the same query.
SameArgumentsAgain ==
    /\ prev.op # "none"
    /\ prev.op = op
    /\ rec = prev.rec
    /\ repos = prev.repos
    /\ query = prev.query

SameResultAgain ==
    /\ scoreOut = prev.scoreOut
    /\ out = prev.out

C14_ScoreWitness ==
    /\ SameArgumentsAgain
    /\ now = prev.now
    /\ op = "score"
    /\ scoreOut > 0
    /\ scoreOut = prev.scoreOut

\* C15: the current time is supplied by the caller and never read from the
\* wall clock inside the engine: two calls of score, rank or hybridSearch
\* with the same arguments return the same result even when the wall clock
\* has advanced between them.
C15_ClockAdvanceChangesNothing ==
    SameArgumentsAgain => SameResultAgain

\* The same record scored twice, 90 days apart on the wall clock, with two
\* different scores.
C15_ScoreChangedWithClock ==
    /\ SameArgumentsAgain
    /\ op = "score"
    /\ now = prev.now + 90 * DaySeconds
    /\ scoreOut < prev.scoreOut

\* C19: with every other field and the current time held fixed, raising the
\* star count never lowers the score; the popularity contribution grows by 2
\* per star up to 30, reached at 15 stars, and any further increase of the
\* star count leaves the score unchanged.
C19_StarsMonotone ==
    (/\ op = "score"
     /\ prev.op = "score"
     /\ now = prev.now
     /\ rec.stargazers_count >= prev.rec.stargazers_count
     /\ rec = [prev.rec EXCEPT !.stargazers_count = rec.stargazers_count])
    =>
        /\ scoreOut >= prev.scoreOut
        /\ scoreOut - prev.scoreOut =
              Least(2 * rec.stargazers_count, 30) * 1000
              - Least(2 * prev.rec.stargazers_count, 30) * 1000
        /\ rec.stargazers_count <= 15 =>
              scoreOut - prev.scoreOut =
                  2 * 1000 * (rec.stargazers_count - prev.rec.stargazers_count)
        /\ prev.rec.stargazers_count >= 15 => scoreOut = prev.scoreOut

\* C19 witness: a record scored at 14 stars and again at 16 stars, at the
\* same clock reading: the score has grown by 2 points, not by 4.
C19_Witness ==
    /\ op = "score"
    /\ prev.op = "score"
    /\ now = prev.now
    /\ prev.rec.stargazers_count = 14
    /\ rec.stargazers_count = 16
    /\ scoreOut = prev.scoreOut + 2 * 1000

\* C19 witness beyond the cap: a record scored at 16 stars and again at 46
\* stars, with the same score.
C19_CapWitness ==
    /\ op = "score"
    /\ prev.op = "score"
    /\ now = prev.now
    /\ prev.rec.stargazers_count = 16
    /\ rec.stargazers_count = 46
    /\ scoreOut = prev.scoreOut

-----------------------------------------------------------------------------
(* GitHubService.hybridSearch(username, query) as a whole: the repositories *)
(* come from getUserRepositories, that is from the fixed demo records, from *)
(* the cache, or from the GitHub API through fetchGitHub.                   *)

\* Cache entries live 10 * 60 * 1000 ms.
CacheTtl == 10 * 60

DemoName == <<"d", "e", "m", "o">>

\* The records getUserRepositories returns for the demo user.
DemoRepositories ==
    <<
      [id |-> 1,
       name |->
         <<"a", "i", "-", "c", "h", "a", "t", "b", "o", "t">>,
       description |->
         <<"A", "d", "v", "a", "n", "c", "e", "d", " ", "A", "I", " ", "c",
           "h", "a", "t", "b", "o", "t", " ", "b", "u", "i", "l",
           "t", " ", "w", "i", "t", "h", " ", "R", "e", "a", "c",
           "t", " ", "a", "n", "d", " ", "O", "p", "e", "n", "A",
           "I", " ", "A", "P", "I">>,
       language |-> "TypeScript", stargazers_count |-> 245,
       forks_count |-> 67, size |-> 15420,
       updated_at |-> 20028 * DaySeconds + 51720,
       topics |->
         <<<<"a", "i">>,
           <<"c", "h", "a", "t", "b", "o", "t">>,
           <<"r", "e", "a", "c", "t">>>>],
      [id |-> 2,
       name |->
         <<"e", "-", "c", "o", "m", "m", "e", "r", "c", "e", "-", "p", "l",
           "a", "t", "f", "o", "r", "m">>,
       description |->
         <<"F", "u", "l", "l", "-", "s", "t", "a", "c", "k", " ", "e", "-",
           "c", "o", "m", "m", "e", "r", "c", "e", " ", "p", "l",
           "a", "t", "f", "o", "r", "m", " ", "w", "i", "t", "h",
           " ", "N", "e", "x", "t", ".", "j", "s", " ", "a", "n",
           "d", " ", "S", "t", "r", "i", "p", "e">>,
       language |-> "JavaScript", stargazers_count |-> 189,
       forks_count |-> 43, size |-> 28750,
       updated_at |-> 20024 * DaySeconds + 60300,
       topics |->
         <<<<"e", "c", "o", "m", "m", "e", "r", "c", "e">>,
           <<"n", "e", "x", "t", "j", "s">>>>],
      [id |-> 3,
       name |->
         <<"m", "l", "-", "c", "l", "a", "s", "s", "i", "f", "i", "e", "r">>,
       description |->
         <<"M", "a", "c", "h", "i", "n", "e", " ", "l", "e", "a", "r", "n",
           "i", "n", "g", " ", "i", "m", "a", "g", "e", " ", "c",
           "l", "a", "s", "s", "i", "f", "i", "e", "r", " ", "u",
           "s", "i", "n", "g", " ", "T", "e", "n", "s", "o", "r",
           "F", "l", "o", "w">>,
       language |-> "Python", stargazers_count |-> 278,
       forks_count |-> 92, size |-> 23450,
       updated_at |-> 20006 * DaySeconds + 34200,
       topics |->
         <<<<"m", "a", "c", "h", "i", "n", "e", "-", "l", "e", "a", "r", "n",
             "i", "n", "g">>,
           <<"p", "y", "t", "h", "o", "n">>>>],
      [id |-> 4,
       name |->
         <<"b", "l", "o", "c", "k", "c", "h", "a", "i", "n", "-", "v", "o",
           "t", "i", "n", "g">>,
       description |->
         <<"S", "e", "c", "u", "r", "e", " ", "v", "o", "t", "i", "n", "g",
           " ", "s", "y", "s", "t", "e", "m", " ", "b", "u", "i",
           "l", "t", " ", "o", "n", " ", "E", "t", "h", "e", "r",
           "e", "u", "m", " ", "b", "l", "o", "c", "k", "c", "h",
           "a", "i", "n">>,
       language |-> "Solidity", stargazers_count |-> 423,
       forks_count |-> 156, size |-> 8920,
       updated_at |-> 19981 * DaySeconds + 43200,
       topics |->
         <<<<"b", "l", "o", "c", "k", "c", "h", "a", "i", "n">>,
           <<"e", "t", "h", "e", "r", "e", "u", "m">>>>]
    >>

UsersPath == <<"/", "u", "s", "e", "r", "s", "/">>
ReposQuery ==
    <<"/", "r", "e", "p", "o", "s", "?", "s", "o", "r", "t", "=", "u", "p",
      "d", "a", "t", "e", "d", "&", "p", "e", "r", "_", "p", "a", "g",
      "e", "=", "1", "0", "0">>

\* `/users/${username}/repos?sort=updated&per_page=100`
reposEndpoint(u) == UsersPath \o u \o ReposQuery

AlphaNumeric ==
    {"a", "b", "c", "d", "e", "f", "g", "h", "i", "j", "k", "l", "m", "n",
     "o", "p", "q", "r", "s", "t", "u", "v", "w", "x", "y", "z",
     "A", "B", "C", "D", "E", "F", "G", "H", "I", "J", "K", "L", "M", "N",
     "O", "P", "Q", "R", "S", "T", "U", "V", "W", "X", "Y", "Z",
     "0", "1", "2", "3", "4", "5", "6", "7", "8", "9"}

\* `github_${endpoint.replace(/[^a-zA-Z0-9]/g, '_')}`
getCacheKey(endpoint) ==
    <<"g", "i", "t", "h", "u", "b", "_">>
    \o [i \in 1..Len(endpoint) |->
          IF endpoint[i] \in AlphaNumeric THEN endpoint[i] ELSE "_"]

\* this.cache.has(key), this.cache.get(key), this.cache.set(key, data),
\* this.cache.delete(key)
cacheHas(c, key) == \E e \in c : e.key = key

cacheGet(c, key) == (CHOOSE e \in c : e.key = key).data

cacheSet(c, key, data) ==
    {e \in c : e.key # key} \cup {[key |-> key, data |-> data]}

cacheDelete(c, key) == {e \in c : e.key # key}

\* repos.filter(repo => !repo.name.includes('fork'))
withoutForks(rs) ==
    SelectSeq(rs, LAMBDA r : ~ includes(r.name, <<"f", "o", "r", "k">>))

-----------------------------------------------------------------------------
(* Inputs of the service specification *)

ServiceStart == Epoch + 40 * DaySeconds

\* Clock readings five minutes apart.
ServiceClock == {ServiceStart + k * 5 * 60 : k \in 0..3}

Users ==
    {<<"D", "e", "m", "o">>, <<"a", "b">>, <<"a", "-", "b">>,
     <<"a", "_", "b">>}

ServiceQueries == {<<>>, <<"a", "I">>, <<"z">>}

ForkRepo(i) ==
    [MakeRepo("db", i) EXCEPT !.name = <<"f", "o", "r", "k", "-", "d", "b">>]

\* What the GitHub API answers to a request for a user's repositories: an
\* error status, or a list of repositories.
ApiResponses ==
    {[ok |-> FALSE, data |-> <<>>],
     [ok |-> TRUE, data |-> <<>>],
     [ok |-> TRUE, data |-> <<MakeRepo("db", 1), MakeRepo("ai", 2)>>],
     [ok |-> TRUE,
      data |-> <<ForkRepo(1), MakeRepo("ai", 2), MakeRepo("db", 3)>>]}

InitService ==
    /\ now = ServiceStart
    /\ repos = <<>>
    /\ query = <<>>
    /\ op = "none"
    /\ out = <<>>
    /\ textMatches = <<>>
    /\ rankedRepos = <<>>
    /\ rec = NoRecord
    /\ scoreOut = NoScore
    /\ ServiceInit

\* hybridSearch(u, q), where the API would answer `response` if asked.  A
\* behaviour makes at most two calls.
HybridSearchUser(u, q, response) ==
    LET isDemo == toLowerCase(u) = DemoName
        cacheKey == getCacheKey(reposEndpoint(u))
        hit == ~ isDemo /\ cacheHas(cache, cacheKey)
        fetched == ~ isDemo /\ ~ hit
        data == IF hit THEN cacheGet(cache, cacheKey) ELSE response.data
        rs == IF isDemo THEN DemoRepositories ELSE withoutForks(data)
    IN  /\ prev.op = "none"
        /\ username' = u
        /\ query' = q
        \* this.callCount++ comes before the request is sent
        /\ callCount' = IF fetched THEN callCount + 1 ELSE callCount
        /\ IF fetched /\ ~ response.ok
           THEN \* throw new Error(...): the promise of hybridSearch rejects
                /\ op' = "rejected"
                /\ repos' = <<>>
                /\ textMatches' = <<>>
                /\ rankedRepos' = <<>>
                /\ out' = <<>>
                /\ UNCHANGED <<cache, timers>>
           ELSE /\ op' = "hybrid"
                /\ cache' = IF fetched
                            THEN cacheSet(cache, cacheKey, response.data)
                            ELSE cache
                /\ timers' = IF fetched
                             THEN timers \cup {[key |-> cacheKey,
                                                due |-> now + CacheTtl]}
                             ELSE timers
                /\ textMatches' = textSearch(rs, q)
                /\ rankedRepos' = rankRepositories(rs, now)
                /\ out' = merge(textMatches', rankedRepos')
                /\ repos' = argumentAfterSort(rs, rankedRepos')
        /\ prev' = Snapshot
        /\ UNCHANGED <<now, rec, scoreOut, matchOut, fetchVars,
                   analyzeVars>>

\* The callback of setTimeout(() => this.cache.delete(cacheKey), ...)
CacheTimeout(tm) ==
    /\ tm \in timers
    /\ now >= tm.due
    /\ cache' = cacheDelete(cache, tm.key)
    /\ timers' = timers \ {tm}
    /\ UNCHANGED <<repos, now, query, op, out, textMatches, rankedRepos, rec,
                   scoreOut, matchOut, prev, username, callCount, fetchVars,
                   analyzeVars>>

\* Time passes; a timer that is due runs before time passes further.
Tick(t) ==
    /\ t > now
    /\ \A tm \in timers : t <= tm.due
    /\ now' = t
    /\ UNCHANGED <<repos, query, op, out, textMatches, rankedRepos, rec,
                   scoreOut, serviceVars>>

NextService ==
    \/ \E u \in Users : \E q \in ServiceQueries : \E response \in ApiResponses :
          HybridSearchUser(u, q, response)
    \/ \E tm \in timers : CacheTimeout(tm)
    \/ \E t \in ServiceClock : Tick(t)

SpecService == InitService /\ [][NextService]_vars

-----------------------------------------------------------------------------
(* The service's state across a call, checked under SpecService *)

\* C20: rank and hybridSearch work only on the record collection they are
\* given: neither performs a network fetch, and neither reads or changes the
\* service's response cache or its API call counter, which are the same
\* after the call as before it.
C20_CallLeavesServiceAlone ==
    [][(prev' # prev /\ op' \in {"rank", "hybrid", "rejected"})
          => (cache' = cache /\ callCount' = callCount)]_vars

\* hybridSearch has fetched a user's repositories from the API: one API call
\* is counted and the answer is in the cache, under the key of the endpoint.
C20_FetchedAndCached ==
    /\ op = "hybrid"
    /\ prev.callCount = 0
    /\ prev.cache = {}
    /\ callCount = 1
    /\ cache = {[key |-> getCacheKey(reposEndpoint(username)),
                 data |-> <<MakeRepo("db", 1), MakeRepo("ai", 2)>>]}

-----------------------------------------------------------------------------
(* The score of a record inside a collection, checked under Spec *)

\* C22: the score rank assigns to a record depends only on that record and
\* the current time: it is the score the record gets when it is ranked
\* alone, whatever other records the collection holds.
C22_ScoreIgnoresOtherRecords ==
    op \in {"rank", "hybrid"} =>
        LET ranked == IF op = "rank" THEN out ELSE rankedRepos
        IN  \A i \in 1..Len(ranked) :
                ranked[i].score =
                    rankRepositories(
                        <<repos[InputIndex(ranked[i].id)]>>, now)[1].score

\* C22 witness: rank has scored a collection of at least three records that
\* holds two records with different scores and two records, equal but for
\* their identifier, with the same score.
C22_Witness ==
    /\ op = "rank"
    /\ Len(repos) >= 3
    /\ \E i, j \in 1..Len(out) :
          /\ i # j
          /\ out[i].name = out[j].name
          /\ out[i].score = out[j].score
    /\ \E i, j \in 1..Len(out) : out[i].score # out[j].score

-----------------------------------------------------------------------------
(* Recency and presentation signals, checked under SpecScore *)

\* What the call added for recency, and for the description: the score less
\* the other five signals.
RecencyAdded ==
    scoreOut - (StarsSignal + ForksSignal + SizeSignal + LanguageSignal
                + DescriptionSignal)

DescriptionAdded ==
    scoreOut - (StarsSignal + ForksSignal + SizeSignal + LanguageSignal
                + RecencySignal)

\* C23: the recency signal is tiered with strict upper bounds on the time
\* elapsed since the last update: less than 30 days gives 15, from exactly 30
\* days to less than 90 days gives 10, from exactly 90 days to less than 180
\* days gives 5, and 180 days or more gives 0.
C23_RecencyTiers ==
    op = "score" =>
        LET elapsed == now - rec.updated_at
            day == 24 * 60 * 60
        IN  /\ elapsed < 30 * day => RecencyAdded = 15 * 1000
            /\ (30 * day <= elapsed /\ elapsed < 90 * day)
                  => RecencyAdded = 10 * 1000
            /\ (90 * day <= elapsed /\ elapsed < 180 * day)
                  => RecencyAdded = 5 * 1000
            /\ 180 * day <= elapsed => RecencyAdded = 0

\* C23 witness: a record updated exactly 30 days before the clock reading
\* has been scored and got 10 for recency.
C23_Witness ==
    /\ op = "score"
    /\ now - rec.updated_at = 30 * 24 * 60 * 60
    /\ RecencyAdded = 10 * 1000

\* C23 witnesses of the other tier boundaries: exactly 90 days gives 5,
\* exactly 180 days gives 0, and one second less than 30 days gives 15.
C23_BoundaryWitness90 ==
    op = "score" /\ now - rec.updated_at = 90 * 24 * 60 * 60
                 /\ RecencyAdded = 5 * 1000

C23_BoundaryWitness180 ==
    op = "score" /\ now - rec.updated_at = 180 * 24 * 60 * 60
                 /\ RecencyAdded = 0

C23_JustBelow30 ==
    op = "score" /\ now - rec.updated_at = 30 * 24 * 60 * 60 - 1
                 /\ RecencyAdded = 15 * 1000

\* C24: the presentation signal is 10 exactly when the description is
\* present and longer than 20 characters; a description of exactly 20
\* characters, an empty description and an absent description contribute 0.
C24_DescriptionLongerThan20 ==
    op = "score" =>
        /\ DescriptionAdded \in {0, 10 * 1000}
        /\ DescriptionAdded = 10 * 1000
              <=> (rec.description # Null /\ Len(rec.description) > 20)
        /\ rec.description = Null => DescriptionAdded = 0
        /\ rec.description = <<>> => DescriptionAdded = 0
        /\ (rec.description # Null /\ Len(rec.description) = 20)
              => DescriptionAdded = 0

\* C24 witness: a description of exactly 20 characters has been scored and
\* added nothing.
C24_Witness ==
    /\ op = "score"
    /\ rec.description # Null
    /\ Len(rec.description) = 20
    /\ DescriptionAdded = 0

\* C24 witness of the other side: 21 characters add 10.
C24_Witness21 ==
    /\ op = "score"
    /\ rec.description # Null
    /\ Len(rec.description) = 21
    /\ DescriptionAdded = 10 * 1000

-----------------------------------------------------------------------------
(* The ranking phase of hybridSearch, checked under Spec *)

\* C25: the ranking phase of hybridSearch ranks the full input set, text
\* matches included, and keeps its top 8; so a record that does not match
\* the query is in the result only if fewer than 8 records of the whole
\* input are ranked before it (by higher score, or by equal score and
\* earlier input position), even when the result has fewer than 8 entries.
C25_NonMatchOnlyFromTopEight ==
    op = "hybrid" =>
        LET sc == [j \in 1..Len(repos) |-> InputScore(j)]
            rankedBefore(k) ==
                {j \in 1..Len(repos) :
                    sc[j] > sc[k] \/ (sc[j] = sc[k] /\ j < k)}
        IN  /\ Len(rankedRepos) = Least(8, Len(repos))
            /\ \A i \in 1..Len(out) :
                  out[i].id \notin Ids(textMatches)
                      => Cardinality(rankedBefore(InputIndex(out[i].id))) < 8

\* C25 witness: a search whose result has fewer than 8 entries has left out
\* a record that does not match the query, and text matches are in the
\* ranking.
C25_Witness ==
    /\ op = "hybrid"
    /\ Len(out) < 8
    /\ \E j \in 1..Len(repos) :
          /\ repos[j].id \notin Ids(textMatches)
          /\ repos[j].id \notin Ids(out)
    /\ \E i \in 1..Len(rankedRepos) : rankedRepos[i].id \in Ids(textMatches)

-----------------------------------------------------------------------------
(* GitHubService.fetchGitHub with requests in flight.  fetchGitHub awaits   *)
(* the network between its cache check and its cache.set, so the steps of   *)
(* several calls interleave: each call is a Begin step (up to the await)    *)
(* and, on a cache miss, a Return step (from the await on).  A behaviour    *)
(* makes at most MaxCalls calls.                                            *)

MaxCalls == 2

UserDash == <<"a", "-", "b">>
UserUnderscore == <<"a", "_", "b">>

ReposPath == <<"/", "r", "e", "p", "o", "s", "/", "o", "/">>

\* `/repos/${owner}/${repo}` for the owner o
repoEndpoint(name) == ReposPath \o name

RepoDash == <<"m", "y", "-", "r">>
RepoUnderscore == <<"m", "y", "_", "r">>

FetchUsers == {UserDash, UserUnderscore, <<"D", "e", "m", "o">>}
FetchQueries == {<<"a", "I">>}
RepoEndpoints == {repoEndpoint(RepoDash), repoEndpoint(RepoUnderscore)}

\* What the GitHub API holds behind each endpoint.
ApiData(e) ==
    IF e = reposEndpoint(UserDash)
    THEN <<ForkRepo(1), MakeRepo("ai", 2), MakeRepo("db", 3)>>
    ELSE IF e = reposEndpoint(UserUnderscore)
    THEN <<MakeRepo("db", 4)>>
    ELSE IF e = repoEndpoint(RepoDash)
    THEN <<[MakeRepo("ai", 5) EXCEPT !.name = RepoDash]>>
    ELSE <<[MakeRepo("db", 6) EXCEPT !.name = RepoUnderscore]>>

\* The answers a request for e can get: the data, or an error status.
ApiAnswers(e) ==
    {[ok |-> TRUE, status |-> 200, data |-> ApiData(e)],
     [ok |-> FALSE, status |-> 403, data |-> <<>>]}

postIncrementTwice(n) == n + 2

\* this.callCount++
postIncrement(n) == n + 1

cacheAfterResponseAlwaysSet(c, key, response) ==
    cacheSet(c, key, response.data)

\* if (!response.ok) throw ...; this.cache.set(cacheKey, data)
cacheAfterResponse(c, key, response) ==
    IF response.ok THEN cacheSet(c, key, response.data) ELSE c

\* Lines 213-229 of hybridSearch on the records rs, at clock reading t.
hybridResults(rs, q, t) ==
    merge(textSearch(rs, q), rankRepositories(rs, t))

\* What a completed call returned.  `method` is "fetchGitHub" or
\* "hybridSearch"; `outcome` is "cache", "network", "error" or "demo".
Served(ident, method, e, u, q, outcome, status, data, result) ==
    [id |-> ident, method |-> method, endpoint |-> e, username |-> u,
     query |-> q, outcome |-> outcome, status |-> status, data |-> data,
     out |-> result, at |-> now]

InitFetch ==
    /\ now = ServiceStart
    /\ repos = <<>>
    /\ query = <<>>
    /\ op = "none"
    /\ out = <<>>
    /\ textMatches = <<>>
    /\ rankedRepos = <<>>
    /\ rec = NoRecord
    /\ scoreOut = NoScore
    /\ ServiceInit

engineVars ==
    <<repos, query, op, out, textMatches, rankedRepos, rec, scoreOut,
      matchOut, prev, username, analyzeVars>>

\* The part of fetchGitHub(e) before its await, for the caller `method`.
\* On a hit the call is over; on a miss the request is counted and sent.
FetchBegin(method, e, u, q) ==
    LET cacheKey == getCacheKey(e)
        ident == ledger.calls + 1
    IN  IF cacheHas(cache, cacheKey)
        THEN LET data == cacheGet(cache, cacheKey)
                 result == IF method = "hybridSearch"
                           THEN hybridResults(withoutForks(data), q, now)
                           ELSE <<>>
             IN  /\ served' = Served(ident, method, e, u, q, "cache", 200,
                                     data, result)
                 /\ ledger' = [ledger EXCEPT !.calls = ident]
                 /\ UNCHANGED <<callCount, pending>>
        ELSE /\ callCount' = postIncrement(callCount)
             /\ ledger' = [calls |-> ident,
                           sinceReset |-> ledger.sinceReset + 1]
             /\ pending' = pending \cup
                   {[id |-> ident, method |-> method, endpoint |-> e,
                     username |-> u, query |-> q, sentAt |-> now]}
             /\ UNCHANGED served

\* hybridSearch(u, q) up to the await of the network.
HybridSearchBegin(u, q) ==
    /\ ledger.calls < MaxCalls
    /\ IF toLowerCase(u) = DemoName
       THEN /\ served' = Served(ledger.calls + 1, "hybridSearch", <<>>, u, q,
                                "demo", 200, DemoRepositories,
                                hybridResults(DemoRepositories, q, now))
            /\ ledger' = [ledger EXCEPT !.calls = @ + 1]
            /\ UNCHANGED <<callCount, pending>>
       ELSE FetchBegin("hybridSearch", reposEndpoint(u), u, q)
    /\ UNCHANGED <<now, cache, timers, engineVars>>

\* fetchGitHub(e), called by getRepositoryDetails or getRepositoryContent,
\* up to the await of the network.
FetchGitHubBegin(e) ==
    /\ ledger.calls < MaxCalls
    /\ FetchBegin("fetchGitHub", e, NoUser, <<>>)
    /\ UNCHANGED <<now, cache, timers, engineVars>>

\* The request p is answered: fetchGitHub goes on behind its await, and
\* hybridSearch behind its own.
FetchReturn(p, response) ==
    LET cacheKey == getCacheKey(p.endpoint)
        result == IF p.method = "hybridSearch" /\ response.ok
                  THEN hybridResults(withoutForks(response.data), p.query, now)
                  ELSE <<>>
    IN  /\ p \in pending
        /\ pending' = pending \ {p}
        /\ cache' = cacheAfterResponse(cache, cacheKey, response)
        /\ timers' = IF response.ok
                     THEN timers \cup {[key |-> cacheKey,
                                        due |-> now + CacheTtl]}
                     ELSE timers
        /\ served' = Served(p.id, p.method, p.endpoint, p.username, p.query,
                            IF response.ok THEN "network" ELSE "error",
                            response.status, response.data, result)
        /\ UNCHANGED <<now, callCount, ledger, engineVars>>

\* resetCallCount()
ResetCallCount ==
    /\ callCount > 0
    /\ callCount' = 0
    /\ ledger' = [ledger EXCEPT !.sinceReset = 0]
    /\ UNCHANGED <<now, cache, timers, pending, served, engineVars>>

NextFetch ==
    \/ \E u \in FetchUsers : \E q \in FetchQueries : HybridSearchBegin(u, q)
    \/ \E e \in RepoEndpoints : FetchGitHubBegin(e)
    \/ \E p \in pending : \E response \in ApiAnswers(p.endpoint) :
          FetchReturn(p, response)
    \/ ResetCallCount
    \/ \E tm \in timers : CacheTimeout(tm)
    \/ \E t \in ServiceClock : Tick(t)

SpecFetch == InitFetch /\ [][NextFetch]_vars

-----------------------------------------------------------------------------
(* Properties of the cache and the call counter, checked under SpecFetch *)

\* A pending timer was set when a response was stored under its key, at
\* tm.due - CacheTtl.

\* C26: a successful response is cached for 10 minutes, under every
\* interleaving of fetches: once a response has been stored, fetches of
\* that endpoint find it in the cache until 10 minutes after it was stored,
\* and the entry is gone after that.
C26_CachedForTenMinutes ==
    /\ \A tm \in timers : now < tm.due => cacheHas(cache, tm.key)
    /\ \A e \in cache :
          \E tm \in timers : tm.key = e.key /\ now <= tm.due

\* Two fetches of one endpoint both missed the cache; the response the
\* second one stored five minutes after the first is gone five minutes
\* later, deleted by the timer of the first.
C26_EntryDeletedEarly ==
    /\ cache = {}
    /\ pending = {}
    /\ \E tm \in timers : tm.due = now + 5 * 60

\* C27: fetchGitHub never answers a request for one endpoint with data that
\* was fetched for a different endpoint: a cache hit for endpoint E returns
\* only a response fetched for exactly E.
C27_HitReturnsOwnEndpointData ==
    served.outcome = "cache" => served.data = ApiData(served.endpoint)

\* A request for /repos/o/my_r has been answered from the cache with the
\* data of /repos/o/my-r: the two endpoints have the same cache key.
C27_AnsweredWithOtherEndpoint ==
    /\ served.outcome = "cache"
    /\ served.endpoint = repoEndpoint(RepoUnderscore)
    /\ served.data = ApiData(repoEndpoint(RepoDash))
    /\ getCacheKey(repoEndpoint(RepoUnderscore))
          = getCacheKey(repoEndpoint(RepoDash))

\* C28: a failed request is never cached: when the response is not OK,
\* fetchGitHub throws an error carrying the status and leaves the cache
\* (and its timers) exactly as they were, so that a later fetch of the
\* endpoint that finds no entry issues a new API call.
C28_FailureNotCached ==
    [][(served' # served /\ served'.outcome = "error")
          => /\ cache' = cache
             /\ timers' = timers
             /\ served'.status = 403]_vars

\* C28 witness: a request failed, the cache is empty, and a fetch of the
\* same endpoint begun later has been counted and sent as a new API call.
C28_Witness ==
    /\ served.outcome = "error"
    /\ cache = {}
    /\ callCount = 2
    /\ \E p \in pending :
          /\ p.endpoint = served.endpoint
          /\ p.sentAt > served.at

\* getCallCount()
getCallCount == callCount

\* C29: after any sequence of fetches and resetCallCount calls, getCallCount
\* equals the number of network requests issued since the last reset: a
\* cache miss raises it by exactly 1 whether the request then succeeds or
\* fails, and a cache hit or a demo-user lookup leaves it unchanged.
C29_CallCountIsRequestsSinceReset ==
    getCallCount = ledger.sinceReset

\* C29 witness: two calls have been made, the second answered from the
\* cache, and one network request is counted.
C29_Witness ==
    /\ ledger.calls = 2
    /\ served.outcome = "cache"
    /\ getCallCount = 1

\* C29 witnesses of the other cases: a demo lookup after a failed request,
\* and a reset while a request is in flight.
C29_DemoWitness ==
    /\ ledger.calls = 2
    /\ served.outcome = "demo"
    /\ getCallCount = 1

C29_FailedWitness ==
    /\ served.outcome = "error"
    /\ getCallCount = 2

C29_ResetWitness ==
    /\ pending # {}
    /\ getCallCount = 0

-----------------------------------------------------------------------------
(* Calls of several request handlers on one service, under SpecFetch *)

\* What the last hybridSearch call returns when it runs alone, on a service
\* nobody else uses, at the same clock reading.
AloneOut ==
    IF served.outcome = "demo"
    THEN hybridResults(DemoRepositories, served.query, served.at)
    ELSE hybridResults(withoutForks(ApiData(reposEndpoint(served.username))),
                       served.query, served.at)

Range(f) == {f[i] : i \in DOMAIN f}

\* C21: concurrent invocations of rank and hybridSearch from several
\* request handlers sharing one service instance are independent: under
\* every interleaving each call returns the result it would return if it
\* ran alone on its inputs, and no call observes state another call altered.
C21_SameResultAsAlone ==
    (served.outcome \in {"cache", "network", "demo"}
        /\ served.method = "hybridSearch")
    => served.out = AloneOut

\* hybridSearch for the user a_b has returned a repository of the user a-b,
\* which an earlier call of another handler left in the cache.
C21_ReturnedOtherUsersRepository ==
    /\ served.outcome = "cache"
    /\ served.method = "hybridSearch"
    /\ served.username = UserUnderscore
    /\ \E i \in 1..Len(served.out) : served.out[i] \notin Range(AloneOut)
    /\ \E i \in 1..Len(served.out) :
          \E k \in 1..Len(ApiData(reposEndpoint(UserDash))) :
             served.out[i].id = ApiData(reposEndpoint(UserDash))[k].id

-----------------------------------------------------------------------------
(* POST /api/analyze (route.ts).  The handler awaits twice: request.json()  *)
(* and tigerSystem.analyzeRepositories(...); the steps of several requests  *)
(* interleave at these awaits.                                              *)

\* What request.json() yields: a body with username and repositories, a body
\* that lacks one of them, or a rejection (the body is not JSON).
Bodies == {"valid", "incomplete", "malformed"}

InitAnalyze ==
    /\ now = ServiceStart
    /\ repos = <<>>
    /\ query = <<>>
    /\ op = "none"
    /\ out = <<>>
    /\ textMatches = <<>>
    /\ rankedRepos = <<>>
    /\ rec = NoRecord
    /\ scoreOut = NoScore
    /\ ServiceInit

restVars ==
    <<repos, now, query, op, out, textMatches, rankedRepos, rec, scoreOut,
      matchOut, prev, username, cache, callCount, timers, fetchVars>>

\* The flag after the handler has accepted a request: a flag that is set is
\* reset first, then the flag is set.
flagAfterAccept(flag) == TRUE

\* The flag after the analysis is over, whether it returned or threw: the
\* finally block (and the catch block after it) clear it.
flagAfterAnalysis(flag) == FALSE

\* Request r arrives: the handler runs up to await request.json().
PostReceive(r) ==
    /\ handlers[r].pc = "idle"
    /\ handlers' = [handlers EXCEPT ![r].pc = "parsing"]
    /\ UNCHANGED <<isAnalyzing, restVars>>

\* request.json() settles for request r: the handler runs up to its next
\* await or to its return.
PostParsed(r, body) ==
    /\ handlers[r].pc = "parsing"
    /\ IF body = "malformed"
       THEN \* request.json() rejects: catch (error) { isAnalyzing = false; ... }
            /\ isAnalyzing' = FALSE
            /\ handlers' = [handlers EXCEPT ![r] = [pc |-> "done", status |-> 500]]
       ELSE IF body = "incomplete"
       THEN \* return ... { status: 400 }
            /\ UNCHANGED isAnalyzing
            /\ handlers' = [handlers EXCEPT ![r] = [pc |-> "done", status |-> 400]]
       ELSE \* if (isAnalyzing) isAnalyzing = false; isAnalyzing = true;
            /\ isAnalyzing' = flagAfterAccept(isAnalyzing)
            /\ handlers' = [handlers EXCEPT ![r].pc = "analyzing"]
    /\ UNCHANGED restVars

\* analyzeRepositories settles for request r: the finally block runs, and
\* after a rejection the catch block.
PostAnalyzed(r, ok) ==
    /\ handlers[r].pc = "analyzing"
    /\ isAnalyzing' = flagAfterAnalysis(isAnalyzing)
    /\ handlers' = [handlers EXCEPT
                       ![r] = [pc |-> "done",
                               status |-> IF ok THEN 200 ELSE 500]]
    /\ UNCHANGED restVars

NextAnalyze ==
    \/ \E r \in Posts : PostReceive(r)
    \/ \E r \in Posts : \E body \in Bodies : PostParsed(r, body)
    \/ \E r \in Posts : \E ok \in BOOLEAN : PostAnalyzed(r, ok)

SpecAnalyze == InitAnalyze /\ [][NextAnalyze]_vars

\* The accepted requests whose analysis is in flight.
Analyzing == {r \in Posts : handlers[r].pc = "analyzing"}

\* C30: in the POST /api/analyze handler the flag isAnalyzing is true
\* exactly while at least one accepted analysis request is in flight, under
\* every interleaving of concurrent requests: it is false when no analysis
\* is running and it is not cleared while another request's analysis is
\* still running.
C30_FlagIffAnalysisInFlight ==
    isAnalyzing <=> (Analyzing # {})

\* Two analyses were in flight and one has finished: the flag is cleared
\* while the other analysis is still running.
C30_ClearedByFinishedRequest ==
    /\ ~ isAnalyzing
    /\ Analyzing # {}
    /\ \E r \in Posts : handlers[r] = [pc |-> "done", status |-> 200]
    /\ \A r \in Posts : handlers[r].pc \in {"analyzing", "done"}
                        /\ handlers[r].status \in {0, 200}

\* A request whose body is not JSON has cleared the flag while an analysis
\* is running.
C30_ClearedByMalformedRequest ==
    /\ ~ isAnalyzing
    /\ Analyzing # {}
    /\ \E r \in Posts : handlers[r] = [pc |-> "done", status |-> 500]
    /\ \A r \in Posts : handlers[r].status # 200

\* The part of the claim that holds: the flag is false whenever no analysis
\* is in flight.
C30_FalseWhenNothingRuns ==
    Analyzing = {} => ~ isAnalyzing

=============================================================================
